---- MODULE Spec2Model ----
(***************************************************************************)
(* Model of the RANDOMIZE_SPEECH action (generatePodcastCL) of             *)
(* agent/src/clAction.ts: validate, handler and generatePodcastContent.    *)
(*                                                                         *)
(* JavaScript runs the code between two awaits without interruption, so    *)
(* every action below is one such segment of the handler: it consumes the  *)
(* settled result of the adapter call it awaited and runs up to and        *)
(* including the next adapter call.  The adapters themselves (blockchain,  *)
(* language model, speech, storage) are the environment: an in-flight call *)
(* either returns a value or raises.                                       *)
(***************************************************************************)
EXTENDS Integers, Sequences, FiniteSets, TLC

(***************************************************************************)
(* Bounds                                                                  *)
(***************************************************************************)
\* longest inbound text, in characters
MaxTextLen == 6
\* adapter results are drawn from 1..MaxVal
MaxVal == 2
\* longest language-model response, in content blocks
MaxBlocks == 1

(***************************************************************************)
(* Values                                                                  *)
(***************************************************************************)
Quote == "q"
Chars == {Quote, "a", "b"}
Vals == 1..MaxVal
Errs == {"network", "rejected"}

\* an absent value (null / undefined) and a present one
Null == [null |-> TRUE]
Some(v) == [null |-> FALSE, val |-> v]

\* a value returned by an adapter: it names the operation that produced it,
\* so that it can be traced through the rest of the run
Val(op, v) == [by |-> op, v |-> v]

RECURSIVE SeqsUpTo(_, _)
SeqsUpTo(S, n) ==
    IF n = 0 THEN {<<>>}
    ELSE LET shorter == SeqsUpTo(S, n - 1)
         IN  shorter \cup {Append(s, x) : s \in {t \in shorter : Len(t) = n - 1}, x \in S}

Texts == SeqsUpTo(Chars, MaxTextLen)

\* inbound texts of the pipeline runs: no fragment, one fragment, two fragments
SampleTexts == {<<"a">>, <<Quote, "a", Quote>>, <<Quote, "a", Quote, Quote, "b", Quote>>}
\* inbound texts of the concurrent runs: no fragment, one fragment
ConcTexts == {<<"b">>, <<Quote, "a", Quote>>}

EnvKeys == {"EVM_PRIVATE_KEY", "CONTRACT_ADDRESS", "CONTRACT_ADDRESS_FLOW",
            "ANTHROPIC_API_KEY", "ELEVENLABS_XI_API_KEY", "PINATA_JWT"}

(***************************************************************************)
(* utils.extractMessages: the quoted fragments of a text in order of       *)
(* appearance, or null when there is none.                                 *)
(***************************************************************************)
RECURSIVE ScanQuotes(_, _, _, _)
ScanQuotes(t, inQuote, cur, acc) ==
    IF t = <<>> THEN acc
    ELSE IF Head(t) = Quote
         THEN IF inQuote
              THEN ScanQuotes(Tail(t), FALSE, <<>>, Append(acc, cur))
              ELSE ScanQuotes(Tail(t), TRUE, <<>>, acc)
         ELSE ScanQuotes(Tail(t), inQuote,
                         IF inQuote THEN Append(cur, Head(t)) ELSE cur, acc)

extractMessages(t) ==
    LET frags == ScanQuotes(t, FALSE, <<>>, <<>>)
    IN  IF frags = <<>> THEN Null ELSE Some(frags)

(***************************************************************************)
(* Notifications sent through the callback                                 *)
(***************************************************************************)
MsgMissingEnv == <<"Missing environment variables. Please check the configuration.">>
MsgRandom     == <<"Requesting random parameters from Chainlink VRF ...">>
MsgContent    == <<"Generating podcast content...">>
MsgSpeech     == <<"Converting text to speech...">>
MsgUpload     == <<"Uploading to IPFS...">>
MsgUpdate     == <<"Updating NFT metadata for Tokenized Podcast ...">>
MsgMint       == <<"Minting NFT in Story ...">>
MsgSecured(resp) ==
    <<"Podcast secured on story protocol Hash: ", resp.txHash, " - Ip Id : ", resp.ipId>>
MsgMinted     == <<"Podcast generated and minted successfully! Check OpenSea to view your NFT">>
MsgError      == <<"An error occurred while generating the podcast.">>

(***************************************************************************)
(* Pure parts of the handler                                               *)
(***************************************************************************)
\* line 43 with the last operand of the test forgotten
ConfigMissingNoJwt(e) == \E k \in EnvKeys \ {"PINATA_JWT"} : k \notin e

\* line 43: a configuration value is absent
ConfigMissing(e) == \E k \in EnvKeys : k \notin e

\* line 68: the batch handed to generatePodcastContent
PromptMessages(messages) ==
    IF messages.null THEN << <<"Awesome messages!">> >> ELSE messages.val

\* lines 137-144
PodcastPrompt(messages, randomParams) ==
    [instruction       |-> "Generate a podcast script based on the day's messages. Create natural speech without formatting.",
     topic             |-> "Ethereum Denver 2025 daily podcast",
     daily_messages    |-> messages,
     random_parameters |-> randomParams,
     duration          |-> "20 Seconds",
     language          |-> "English"]

\* JSON.stringify of a prompt: its members in insertion order
StringifyPrompt(p) ==
    << <<"instruction", p.instruction>>, <<"topic", p.topic>>,
       <<"daily_messages", p.daily_messages>>,
       <<"random_parameters", p.random_parameters>>,
       <<"duration", p.duration>>, <<"language", p.language>> >>

\* lines 146-150: the request sent to the language model
CompletionRequest(messages, randomParams) ==
    [model      |-> "claude-3-haiku-20240307",
     max_tokens |-> 1024,
     messages   |-> << [role |-> "user",
                        content |-> StringifyPrompt(PodcastPrompt(messages, randomParams))] >>]

\* lines 152-155: the text blocks of a response, in response order (the
\* lines of the newline-joined script)
IsTextBlock(b) == b.type = "text"
ResponseText(response) ==
    LET texts == SelectSeq(response.v, IsTextBlock)
    IN  Val(response.by, [k \in 1..Len(texts) |-> texts[k].text])

\* lines 81-86
PodcastMetadata(randomParams, audioHash) ==
    [name         |-> "BuffiCast Podcast",
     description  |-> <<"Podcast generated by BuffiCast with parameters: ", randomParams>>,
     image        |-> "https://ipfs.io/ipfs/bafkreifqzkq7tzppc22fa2f52sg2cruvomne2tp34yhdnx3ub2xw24b52m",
     external_url |-> <<"https://ipfs.io/ipfs/", audioHash>>]

\* line 92
TokenURI(metadataHash) == <<"https://ipfs.io/ipfs/", metadataHash>>

\* line 96 with the two arguments exchanged
StoryArgsExchanged(audioHash, metadataHash) == <<metadataHash, audioHash>>

\* line 96 with the metadata identifier passed twice
StoryArgsMetadataTwice(audioHash, metadataHash) == <<metadataHash, metadataHash>>

\* line 96: the arguments of callStoryProtocol
StoryArgs(audioHash, metadataHash) == <<audioHash, metadataHash>>

\* lines 98-100 with the closing notification left out
SuccessNotesSecuredOnly(resp) == <<MsgSecured(resp)>>

\* lines 98-100: the notifications after IP registration
SuccessNotes(resp) == <<MsgSecured(resp), MsgMinted>>

(***************************************************************************)
(* State                                                                   *)
(***************************************************************************)
VARIABLES
    env,        \* process.env: the configuration values that are set
    state,      \* the session State object: [daily_messages]
    text,       \* per event: _memory.content.text
    stateArg,   \* per event: the _state argument of validate
    validated,  \* per event: what validate returned ("none" before it ran)
    callback,   \* per invocation: the _callback argument
    pc,         \* per invocation: where the handler is
    pending,    \* per invocation: the adapter call being awaited
    locals,     \* per invocation: the handler's constants
    calls,      \* per invocation: the adapter calls made, with arguments
    notes,      \* per invocation: the notifications passed to the callback
    results,    \* per invocation: how the adapter calls ended, in order
    logged,     \* per invocation: what went to elizaLogger.error
    ret         \* per invocation: the handler's outcome

vars == <<env, state, text, stateArg, validated, callback, pc, pending,
          locals, calls, results, notes, logged, ret>>

Invs == DOMAIN pc

\* what the adapters of invocation i may answer with
ValsOf(i) == IF Cardinality(Invs) = 1 THEN Vals ELSE {i}
Blocks(i) == {[type |-> "text", text |-> v] : v \in ValsOf(i)}
              \cup {[type |-> "tool_use"]}
Responses(i) ==
    IF Cardinality(Invs) = 1 THEN SeqsUpTo(Blocks(i), MaxBlocks)
    ELSE {<<[type |-> "text", text |-> i]>>}
MintResults(i) == [txHash : ValsOf(i), ipId : ValsOf(i)]

\* the handler's constants before they are assigned
Unset == Val("unset", 0)
NoLocals == [messages |-> Null, randomParams |-> Unset, content |-> Unset,
             audioPath |-> Unset, audioHash |-> Unset, metadataHash |-> Unset,
             resp |-> Unset]

InitOf(ids, texts, envs) ==
    /\ env \in envs
    /\ state = [daily_messages |-> Null]
    /\ text \in [ids -> texts]
    /\ stateArg = [i \in ids |-> "none"]
    /\ validated = [i \in ids |-> "none"]
    /\ callback = [i \in ids |-> "none"]
    /\ pc = [i \in ids |-> "idle"]
    /\ pending = [i \in ids |-> [st |-> "none"]]
    /\ locals = [i \in ids |-> NoLocals]
    /\ calls = [i \in ids |-> <<>>]
    /\ results = [i \in ids |-> <<>>]
    /\ notes = [i \in ids |-> <<>>]
    /\ logged = [i \in ids |-> <<>>]
    /\ ret = [i \in ids |-> "none"]

\* one invocation, any configuration
Init == InitOf({1}, SampleTexts, SUBSET EnvKeys)

\* validate alone, on every text
InitValidate == InitOf({1}, Texts, {EnvKeys})

\* two events handled concurrently; complete configuration or one value absent
InitConc == InitOf({1, 2}, ConcTexts, {EnvKeys, EnvKeys \ {"PINATA_JWT"}})

(***************************************************************************)
(* validate (lines 21-30)                                                  *)
(***************************************************************************)
\* lines 25-29 returning true whether or not there is a state to write to
validateReturnsIgnoringState(messages, hasState) ==
    IF messages.null THEN "false" ELSE "true"

\* what validate returns
validateReturns(messages, hasState) ==
    IF messages.null THEN "false"
    ELSE IF hasState THEN "true" ELSE "false"

Validate(i) ==
    /\ pc[i] = "idle"
    /\ validated[i] = "none"
    /\ \E hasState \in BOOLEAN :
        LET messages == extractMessages(text[i])
        IN  /\ stateArg' = [stateArg EXCEPT ![i] = IF hasState THEN "present" ELSE "absent"]
            /\ state' = IF ~messages.null /\ hasState
                        THEN [state EXCEPT !.daily_messages = messages]
                        ELSE state
            /\ validated' = [validated EXCEPT ![i] = validateReturns(messages, hasState)]
    /\ UNCHANGED <<env, text, callback, pc, pending, locals, calls, results,
                   notes, logged, ret>>

(***************************************************************************)
(* handler (lines 32-109)                                                  *)
(***************************************************************************)
\* line 34 reading the batch back from the session state
HandlerMessagesFromState(i) == state.daily_messages

\* line 34: the batch the handler works on
HandlerMessages(i) == extractMessages(text[i])

Notify(i, msgs) == notes' = [notes EXCEPT ![i] = @ \o msgs]

Invoke(i, op, arg) ==
    /\ calls' = [calls EXCEPT ![i] = Append(@, [op |-> op, arg |-> arg])]
    /\ pending' = [pending EXCEPT ![i] = [st |-> "inflight"]]

\* lines 32-62 with line 33 returning false instead of throwing
HandlerEntryNoThrow(i) ==
    /\ pc[i] = "idle"
    /\ \E cb \in {"absent", "resolves", "rejects"} :
        /\ callback' = [callback EXCEPT ![i] = cb]
        /\ IF cb = "absent"
           THEN /\ ret' = [ret EXCEPT ![i] = "false"]
                /\ pc' = [pc EXCEPT ![i] = "done"]
                /\ UNCHANGED <<locals, calls, pending, notes>>
           ELSE /\ locals' = [locals EXCEPT ![i].messages = HandlerMessages(i)]
                /\ IF ConfigMissing(env)
                   THEN /\ Notify(i, <<MsgMissingEnv>>)
                        /\ ret' = [ret EXCEPT ![i] = "false"]
                        /\ pc' = [pc EXCEPT ![i] = "done"]
                        /\ UNCHANGED <<calls, pending>>
                   ELSE /\ Notify(i, <<MsgRandom>>)
                        /\ Invoke(i, "requestRandomParameters", <<>>)
                        /\ pc' = [pc EXCEPT ![i] = "await_random"]
                        /\ UNCHANGED ret
    /\ UNCHANGED <<env, state, text, stateArg, validated, results, logged>>

\* lines 32-62: up to the first await
HandlerEntry(i) ==
    /\ pc[i] = "idle"
    /\ \E cb \in {"absent", "resolves", "rejects"} :
        /\ callback' = [callback EXCEPT ![i] = cb]
        /\ IF cb = "absent"
           THEN /\ ret' = [ret EXCEPT ![i] = "threw"]
                /\ pc' = [pc EXCEPT ![i] = "done"]
                /\ UNCHANGED <<locals, calls, pending, notes>>
           ELSE /\ locals' = [locals EXCEPT ![i].messages = HandlerMessages(i)]
                /\ IF ConfigMissing(env)
                   THEN /\ Notify(i, <<MsgMissingEnv>>)
                        /\ ret' = [ret EXCEPT ![i] = "false"]
                        /\ pc' = [pc EXCEPT ![i] = "done"]
                        /\ UNCHANGED <<calls, pending>>
                   ELSE /\ Notify(i, <<MsgRandom>>)
                        /\ Invoke(i, "requestRandomParameters", <<>>)
                        /\ pc' = [pc EXCEPT ![i] = "await_random"]
                        /\ UNCHANGED ret
    /\ UNCHANGED <<env, state, text, stateArg, validated, results, logged>>

\* the continuation after an await: the awaited call has returned a value
Resumes(i, at) ==
    /\ pc[i] = at
    /\ pending[i].st = "returned"

\* lines 62-71 and 135-150
AfterRandom(i) ==
    /\ Resumes(i, "await_random")
    /\ LET randomParams == pending[i].val
       IN  /\ locals' = [locals EXCEPT ![i].randomParams = randomParams]
           /\ Notify(i, <<MsgContent>>)
           /\ Invoke(i, "messages.create",
                     CompletionRequest(PromptMessages(locals[i].messages), randomParams))
    /\ pc' = [pc EXCEPT ![i] = "await_content"]
    /\ UNCHANGED <<env, state, text, stateArg, validated, callback, results,
                   logged, ret>>

\* lines 152-155 and 67-75
AfterContent(i) ==
    /\ Resumes(i, "await_content")
    /\ LET content == ResponseText(pending[i].val)
       IN  /\ locals' = [locals EXCEPT ![i].content = content]
           /\ Notify(i, <<MsgSpeech>>)
           /\ Invoke(i, "generateAudio", content)
    /\ pc' = [pc EXCEPT ![i] = "await_audio"]
    /\ UNCHANGED <<env, state, text, stateArg, validated, callback, results,
                   logged, ret>>

\* lines 75-79 with the notification of line 78 forgotten
AfterAudioUnannounced(i) ==
    /\ Resumes(i, "await_audio")
    /\ LET audioPath == pending[i].val
       IN  /\ locals' = [locals EXCEPT ![i].audioPath = audioPath]
           /\ Invoke(i, "uploadAudioFile", audioPath)
    /\ pc' = [pc EXCEPT ![i] = "await_uploadAudio"]
    /\ UNCHANGED <<env, state, text, stateArg, validated, callback, results,
                   notes, logged, ret>>

\* lines 75-79
AfterAudio(i) ==
    /\ Resumes(i, "await_audio")
    /\ LET audioPath == pending[i].val
       IN  /\ locals' = [locals EXCEPT ![i].audioPath = audioPath]
           /\ Notify(i, <<MsgUpload>>)
           /\ Invoke(i, "uploadAudioFile", audioPath)
    /\ pc' = [pc EXCEPT ![i] = "await_uploadAudio"]
    /\ UNCHANGED <<env, state, text, stateArg, validated, callback, results,
                   logged, ret>>

\* lines 79-88
AfterUploadAudio(i) ==
    /\ Resumes(i, "await_uploadAudio")
    /\ LET audioHash == pending[i].val
       IN  /\ locals' = [locals EXCEPT ![i].audioHash = audioHash]
           /\ Invoke(i, "uploadMetadata",
                     PodcastMetadata(locals[i].randomParams, audioHash))
    /\ pc' = [pc EXCEPT ![i] = "await_uploadMetadata"]
    /\ UNCHANGED <<env, state, text, stateArg, validated, callback, results,
                   notes, logged, ret>>

\* lines 88-92
AfterUploadMetadata(i) ==
    /\ Resumes(i, "await_uploadMetadata")
    /\ LET metadataHash == pending[i].val
       IN  /\ locals' = [locals EXCEPT ![i].metadataHash = metadataHash]
           /\ Notify(i, <<MsgUpdate>>)
           /\ Invoke(i, "updateTokenURI", TokenURI(metadataHash))
    /\ pc' = [pc EXCEPT ![i] = "await_updateTokenURI"]
    /\ UNCHANGED <<env, state, text, stateArg, validated, callback, results,
                   logged, ret>>

\* lines 92-96 awaiting a registration that was never started
AfterUpdateTokenURINoCall(i) ==
    /\ Resumes(i, "await_updateTokenURI")
    /\ Notify(i, <<MsgMint>>)
    /\ pending' = [pending EXCEPT ![i] = [st |-> "none"]]
    /\ pc' = [pc EXCEPT ![i] = "await_story"]
    /\ UNCHANGED <<env, state, text, stateArg, validated, callback, locals,
                   calls, results, logged, ret>>

\* lines 92-96 with the await of line 92 forgotten
AfterUpdateTokenURINoAwait(i) ==
    /\ pc[i] = "await_updateTokenURI"
    /\ pending[i].st \in {"inflight", "returned"}
    /\ Notify(i, <<MsgMint>>)
    /\ Invoke(i, "callStoryProtocol",
              StoryArgs(locals[i].audioHash, locals[i].metadataHash))
    /\ pc' = [pc EXCEPT ![i] = "await_story"]
    /\ UNCHANGED <<env, state, text, stateArg, validated, callback, locals,
                   results, logged, ret>>

\* lines 92-96
AfterUpdateTokenURI(i) ==
    /\ Resumes(i, "await_updateTokenURI")
    /\ Notify(i, <<MsgMint>>)
    /\ Invoke(i, "callStoryProtocol",
              StoryArgs(locals[i].audioHash, locals[i].metadataHash))
    /\ pc' = [pc EXCEPT ![i] = "await_story"]
    /\ UNCHANGED <<env, state, text, stateArg, validated, callback, locals,
                   results, logged, ret>>

\* lines 96-102
AfterStory(i) ==
    /\ Resumes(i, "await_story")
    /\ LET resp == pending[i].val.v
       IN  /\ locals' = [locals EXCEPT ![i].resp = resp]
           /\ Notify(i, SuccessNotes(resp))
    /\ pending' = [pending EXCEPT ![i] = [st |-> "none"]]
    /\ ret' = [ret EXCEPT ![i] = "true"]
    /\ pc' = [pc EXCEPT ![i] = "done"]
    /\ UNCHANGED <<env, state, text, stateArg, validated, callback, calls,
                   results, logged>>

\* lines 104-108 with the notification of line 106 forgotten
CatchSilently(i) ==
    /\ pc[i] \notin {"idle", "done"}
    /\ pending[i].st = "raised"
    /\ logged' = [logged EXCEPT ![i] = Append(@, <<"Podcast Generation Error:", pending[i].err>>)]
    /\ pending' = [pending EXCEPT ![i] = [st |-> "none"]]
    /\ ret' = [ret EXCEPT ![i] = "false"]
    /\ pc' = [pc EXCEPT ![i] = "done"]
    /\ UNCHANGED <<env, state, text, stateArg, validated, callback, locals,
                   calls, results, notes>>

\* lines 104-108 trying the failed call a second time before giving up
CatchRetryingOnce(i) ==
    /\ pc[i] \notin {"idle", "done"}
    /\ pending[i].st = "raised"
    /\ LET failed == calls[i][Len(calls[i])]
           tries  == Cardinality({k \in 1..Len(calls[i]) : calls[i][k].op = failed.op})
       IN  IF tries < 2
           THEN /\ Invoke(i, failed.op, failed.arg)
                /\ UNCHANGED <<logged, notes, ret, pc>>
           ELSE /\ logged' = [logged EXCEPT ![i] = Append(@, <<"Podcast Generation Error:", pending[i].err>>)]
                /\ Notify(i, <<MsgError>>)
                /\ pending' = [pending EXCEPT ![i] = [st |-> "none"]]
                /\ ret' = [ret EXCEPT ![i] = "false"]
                /\ pc' = [pc EXCEPT ![i] = "done"]
                /\ UNCHANGED calls
    /\ UNCHANGED <<env, state, text, stateArg, validated, callback, locals,
                   results>>

\* lines 104-108 with line 107 returning true
CatchReturningTrue(i) ==
    /\ pc[i] \notin {"idle", "done"}
    /\ pending[i].st = "raised"
    /\ logged' = [logged EXCEPT ![i] = Append(@, <<"Podcast Generation Error:", pending[i].err>>)]
    /\ Notify(i, <<MsgError>>)
    /\ pending' = [pending EXCEPT ![i] = [st |-> "none"]]
    /\ ret' = [ret EXCEPT ![i] = "true"]
    /\ pc' = [pc EXCEPT ![i] = "done"]
    /\ UNCHANGED <<env, state, text, stateArg, validated, callback, locals,
                   calls, results>>

\* lines 104-108 with the error put into the notification of line 106
CatchShowingError(i) ==
    /\ pc[i] \notin {"idle", "done"}
    /\ pending[i].st = "raised"
    /\ logged' = [logged EXCEPT ![i] = Append(@, <<"Podcast Generation Error:", pending[i].err>>)]
    /\ Notify(i, <<MsgError \o <<pending[i].err>> >>)
    /\ pending' = [pending EXCEPT ![i] = [st |-> "none"]]
    /\ ret' = [ret EXCEPT ![i] = "false"]
    /\ pc' = [pc EXCEPT ![i] = "done"]
    /\ UNCHANGED <<env, state, text, stateArg, validated, callback, locals,
                   calls, results>>

\* lines 104-108: the awaited call has raised
Catch(i) ==
    /\ pc[i] \notin {"idle", "done"}
    /\ pending[i].st = "raised"
    /\ logged' = [logged EXCEPT ![i] = Append(@, <<"Podcast Generation Error:", pending[i].err>>)]
    /\ Notify(i, <<MsgError>>)
    /\ pending' = [pending EXCEPT ![i] = [st |-> "none"]]
    /\ ret' = [ret EXCEPT ![i] = "false"]
    /\ pc' = [pc EXCEPT ![i] = "done"]
    /\ UNCHANGED <<env, state, text, stateArg, validated, callback, locals,
                   calls, results>>

(***************************************************************************)
(* The adapters: the call in flight returns or raises                      *)
(***************************************************************************)
ResultsOf(i, op) ==
    CASE op = "requestRandomParameters" -> ValsOf(i)
      [] op = "messages.create"         -> Responses(i)
      [] op = "generateAudio"           -> ValsOf(i)
      [] op = "uploadAudioFile"         -> ValsOf(i)
      [] op = "uploadMetadata"          -> ValsOf(i)
      [] op = "updateTokenURI"          -> {0}
      [] op = "callStoryProtocol"       -> MintResults(i)

InFlight(i) == calls[i][Len(calls[i])].op

AdapterReturns(i) ==
    /\ pending[i].st = "inflight"
    /\ \E v \in ResultsOf(i, InFlight(i)) :
        LET val == Val(InFlight(i), v)
        IN  /\ pending' = [pending EXCEPT ![i] = [st |-> "returned", val |-> val]]
            /\ results' = [results EXCEPT ![i] =
                             Append(@, [op |-> InFlight(i), ok |-> TRUE, val |-> val])]
    /\ UNCHANGED <<env, state, text, stateArg, validated, callback, pc, locals,
                   calls, notes, logged, ret>>

AdapterRaises(i) ==
    /\ pending[i].st = "inflight"
    /\ \E e \in Errs :
        /\ pending' = [pending EXCEPT ![i] = [st |-> "raised", err |-> e]]
        /\ results' = [results EXCEPT ![i] =
                         Append(@, [op |-> InFlight(i), ok |-> FALSE, err |-> e])]
    /\ UNCHANGED <<env, state, text, stateArg, validated, callback, pc, locals,
                   calls, notes, logged, ret>>

Next ==
    \E i \in Invs :
        \/ Validate(i)
        \/ HandlerEntry(i)
        \/ AfterRandom(i)
        \/ AfterContent(i)
        \/ AfterAudio(i)
        \/ AfterUploadAudio(i)
        \/ AfterUploadMetadata(i)
        \/ AfterUpdateTokenURI(i)
        \/ AfterStory(i)
        \/ Catch(i)
        \/ AdapterReturns(i)
        \/ AdapterRaises(i)

NextValidate == \E i \in Invs : Validate(i)

\* the handler's continuation after the awaited call has settled
Resume(i) ==
    \/ AfterRandom(i) \/ AfterContent(i) \/ AfterAudio(i)
    \/ AfterUploadAudio(i) \/ AfterUploadMetadata(i)
    \/ AfterUpdateTokenURI(i) \/ AfterStory(i) \/ Catch(i)

\* the adapter call in flight settles
Settle(i) == AdapterReturns(i) \/ AdapterRaises(i)

Spec == Init /\ [][Next]_vars

\* one invocation whose adapter calls all settle; the event loop runs a
\* continuation once the promise it awaits has settled
SpecLive == Init /\ [][Next]_vars /\ WF_vars(Settle(1)) /\ WF_vars(Resume(1))
SpecConc == InitConc /\ [][Next]_vars
SpecValidate == InitValidate /\ [][NextValidate]_vars

(***************************************************************************)
(* Vocabulary of the properties                                            *)
(***************************************************************************)
\* the handler of invocation i was called with a callback
Started(i) == callback[i] \in {"resolves", "rejects"}

AllConfigured == EnvKeys \subseteq env

OpOrder == <<"requestRandomParameters", "messages.create", "generateAudio",
             "uploadAudioFile", "uploadMetadata", "updateTokenURI",
             "callStoryProtocol">>

Count(seq, x) == Cardinality({k \in 1..Len(seq) : seq[k] = x})

\* the adapter call of invocation i that raised, if any, is its last one
Raised(i) == results[i] # <<>> /\ ~results[i][Len(results[i])].ok

\* all seven adapter calls of invocation i have returned
AllReturned(i) ==
    /\ Len(results[i]) = Len(OpOrder)
    /\ \A k \in 1..Len(results[i]) : results[i][k].ok

IsSuccessNote(n) ==
    n = MsgMinted \/ n[1] = "Podcast secured on story protocol Hash: "

ProgressNotes == <<MsgRandom, MsgContent, MsgSpeech, MsgUpload, MsgUpdate, MsgMint>>

(***************************************************************************)
(* C1: when the handler is called with a callback and one of the six       *)
(* configuration values is absent, it emits the missing-config warning and *)
(* nothing else, invokes no adapter and returns false.                     *)
(***************************************************************************)
C1_MissingConfig ==
    \A i \in Invs :
        (Started(i) /\ ~AllConfigured) =>
            /\ notes[i] = <<MsgMissingEnv>>
            /\ calls[i] = <<>>
            /\ pending[i].st = "none"
            /\ ret[i] = "false"
            /\ pc[i] = "done"

C1_Witness ==
    \E i \in Invs :
        /\ Started(i)
        /\ Cardinality(EnvKeys \ env) = 1
        /\ pc[i] = "done"
        /\ notes[i] = <<MsgMissingEnv>>

(***************************************************************************)
(* C2: with all configuration present, once an adapter step has raised, no *)
(* further adapter step is invoked, no success notification is emitted,    *)
(* the run ends with exactly one generic failure notification and the      *)
(* handler returns false.                                                  *)
(***************************************************************************)
C2_FailureStops ==
    \A i \in Invs :
        (AllConfigured /\ Raised(i)) =>
            /\ Len(calls[i]) = Len(results[i])
            /\ \A k \in 1..(Len(results[i]) - 1) : results[i][k].ok
            /\ \A k \in 1..Len(notes[i]) : ~IsSuccessNote(notes[i][k])
            /\ Count(notes[i], MsgError) = (IF pc[i] = "done" THEN 1 ELSE 0)
            /\ ret[i] = (IF pc[i] = "done" THEN "false" ELSE "none")
            /\ pending[i].st \in {"raised", "none"}
            /\ pending[i].st = "none" <=> pc[i] = "done"

\* speech synthesis raised after the language model succeeded, and the run
\* has ended
C2_Witness ==
    \E i \in Invs :
        /\ AllConfigured
        /\ pc[i] = "done"
        /\ Len(results[i]) = 3
        /\ results[i][2].ok
        /\ results[i][3].op = "generateAudio" /\ ~results[i][3].ok
        /\ Len(calls[i]) = 3

(***************************************************************************)
(* C3 as stated: when every adapter succeeds the notifications are the six *)
(* progress notices followed by the success notice with the transaction   *)
(* hash and IP id, which is the last notification of the run.              *)
(***************************************************************************)
C3_Original ==
    \A i \in Invs :
        (Started(i) /\ AllConfigured /\ AllReturned(i) /\ pc[i] = "done") =>
            /\ ret[i] = "true"
            /\ notes[i] = Append(ProgressNotes, MsgSecured(results[i][7].val.v))

(***************************************************************************)
(* C3 amended: when every adapter succeeds the handler returns true and    *)
(* the notifications are the six progress notices, then the notice with    *)
(* the transaction hash and IP id of the IP registration's result, then a  *)
(* closing minted-successfully notice that carries neither.                *)
(***************************************************************************)
C3_SuccessNotifications ==
    \A i \in Invs :
        (Started(i) /\ AllConfigured /\ AllReturned(i) /\ pc[i] = "done") =>
            /\ ret[i] = "true"
            /\ notes[i] = ProgressNotes \o
                          <<MsgSecured(results[i][7].val.v), MsgMinted>>
            /\ notes[i][7][2] = results[i][7].val.v.txHash
            /\ notes[i][7][4] = results[i][7].val.v.ipId
            /\ Len(notes[i][8]) = 1

C3_Witness ==
    \E i \in Invs :
        /\ Started(i) /\ AllConfigured /\ AllReturned(i) /\ pc[i] = "done"
        /\ results[i][7].val.v.txHash # results[i][7].val.v.ipId
        /\ Len(notes[i]) = 8

(***************************************************************************)
(* The quoted fragments of a text, from the positions of its quotation     *)
(* marks: the n-th fragment lies between the (2n-1)-th and the 2n-th mark. *)
(***************************************************************************)
QuotePositions(t) == {p \in 1..Len(t) : t[p] = Quote}
NthQuote(t, n) ==
    CHOOSE p \in QuotePositions(t) :
        Cardinality({r \in QuotePositions(t) : r <= p}) = n
NumFragments(t) == Cardinality(QuotePositions(t)) \div 2
QuotedFragments(t) ==
    [n \in 1..NumFragments(t) |->
        SubSeq(t, NthQuote(t, 2 * n - 1) + 1, NthQuote(t, 2 * n) - 1)]

(***************************************************************************)
(* C4: for an inbound text without quoted fragment, validate returns false *)
(* and the pipeline never starts: no adapter is invoked and no             *)
(* notification is emitted for that event, also when the handler is called *)
(* on it.                                                                  *)
(***************************************************************************)
C4_NoFragmentsNoPipeline ==
    \A i \in Invs :
        NumFragments(text[i]) = 0 =>
            /\ validated[i] # "true"
            /\ calls[i] = <<>>
            /\ notes[i] = <<>>

(***************************************************************************)
(* C5 as stated: for a text with at least one quoted fragment validate     *)
(* returns true and attaches the fragments, in order of appearance, to the *)
(* state, whatever its other inputs are.                                   *)
(***************************************************************************)
C5_Original ==
    \A i \in Invs :
        (validated[i] # "none" /\ NumFragments(text[i]) >= 1) =>
            /\ validated[i] = "true"
            /\ state.daily_messages = Some(QuotedFragments(text[i]))

(***************************************************************************)
(* C5 amended: for a text with at least one quoted fragment, validate      *)
(* called with a session state returns true and sets daily_messages to the *)
(* fragments in order of appearance; called without a session state it     *)
(* returns false and attaches nothing.                                     *)
(***************************************************************************)
C5_ValidateExtracts ==
    \A i \in Invs :
        (validated[i] # "none" /\ NumFragments(text[i]) >= 1) =>
            IF stateArg[i] = "present"
            THEN /\ validated[i] = "true"
                 /\ state.daily_messages = Some(QuotedFragments(text[i]))
            ELSE /\ validated[i] = "false"
                 /\ state.daily_messages = Null

\* validate has accepted a text with two different fragments
C5_Witness ==
    \E i \in Invs :
        /\ validated[i] = "true"
        /\ NumFragments(text[i]) = 2
        /\ state.daily_messages.val[1] # state.daily_messages.val[2]
        /\ Len(state.daily_messages.val[1]) > 0

(***************************************************************************)
(* C6: the adapter operations of an invocation are invoked in the fixed    *)
(* order, each only after its predecessor has returned successfully; at    *)
(* most one adapter call of the invocation is in flight.                   *)
(***************************************************************************)
C6_Sequential ==
    \A i \in Invs :
        /\ Len(calls[i]) <= Len(OpOrder)
        /\ \A k \in 1..Len(calls[i]) : calls[i][k].op = OpOrder[k]
        /\ Len(results[i]) \in {Len(calls[i]) - 1, Len(calls[i])}
        /\ \A k \in 1..Len(results[i]) : results[i][k].op = calls[i][k].op
        /\ \A k \in 1..(Len(calls[i]) - 1) : results[i][k].ok
        /\ pending[i].st = "inflight" <=> Len(results[i]) = Len(calls[i]) - 1

\* the last operation is in flight after the six before it have returned
C6_Witness ==
    \E i \in Invs :
        /\ Len(calls[i]) = 7
        /\ pending[i].st = "inflight"
        /\ Len(results[i]) = 6

(***************************************************************************)
(* What an invocation running alone does, as a function of its own inputs  *)
(* (the event's text, the callback, the configuration) and of the answers  *)
(* its own adapter calls got.                                              *)
(***************************************************************************)
SoloMessages(i) ==
    IF NumFragments(text[i]) = 0 THEN << <<"Awesome messages!">> >>
    ELSE QuotedFragments(text[i])

\* the argument of the k-th adapter call
SoloArg(i, k) ==
    CASE k = 1 -> <<>>
      [] k = 2 -> CompletionRequest(SoloMessages(i), results[i][1].val)
      [] k = 3 -> ResponseText(results[i][2].val)
      [] k = 4 -> results[i][3].val
      [] k = 5 -> PodcastMetadata(results[i][1].val, results[i][4].val)
      [] k = 6 -> TokenURI(results[i][5].val)
      [] k = 7 -> StoryArgs(results[i][4].val, results[i][5].val)

\* the progress notifications emitted once n adapter calls have been made
NotesAfterCalls(n) == SubSeq(ProgressNotes, 1, IF n <= 4 THEN n ELSE n - 1)

SoloNotes(i) ==
    IF ~Started(i) THEN <<>>
    ELSE IF ~AllConfigured THEN <<MsgMissingEnv>>
    ELSE IF pc[i] # "done" THEN NotesAfterCalls(Len(calls[i]))
    ELSE IF Raised(i) THEN Append(NotesAfterCalls(Len(results[i])), MsgError)
    ELSE NotesAfterCalls(7) \o <<MsgSecured(results[i][7].val.v), MsgMinted>>

SoloRet(i) ==
    IF pc[i] # "done" THEN "none"
    ELSE IF ~Started(i) THEN "threw"
    ELSE IF ~AllConfigured \/ Raised(i) THEN "false"
    ELSE "true"

(***************************************************************************)
(* C7: concurrent invocations do not interact: the notifications of each,  *)
(* the arguments it passes to each adapter and its return value are those  *)
(* of the invocation running alone; nothing another invocation wrote (the  *)
(* daily_messages of the session state included) enters them.              *)
(***************************************************************************)
C7_Independent ==
    \A i \in Invs :
        /\ \A k \in 1..Len(calls[i]) :
               calls[i][k] = [op |-> OpOrder[k], arg |-> SoloArg(i, k)]
        /\ notes[i] = SoloNotes(i)
        /\ ret[i] = SoloRet(i)

\* two invocations on different texts have both run to the end, the first
\* on its own fragments and the second, whose text has none, while the
\* session state held the batch that validate stored for the first
C7_Witness ==
    /\ Cardinality(Invs) = 2
    /\ \A i \in Invs : pc[i] = "done" /\ ret[i] = "true"
    /\ validated[1] = "true"
    /\ state.daily_messages = Some(QuotedFragments(text[1]))
    /\ NumFragments(text[2]) = 0
    /\ calls[1][2].arg # calls[2][2].arg

(***************************************************************************)
(* Which adapter results an adapter call reads: the operations that        *)
(* produced the values its argument is built from.                         *)
(***************************************************************************)
Sources(call) ==
    CASE call.op = "requestRandomParameters" -> {}
      [] call.op = "messages.create" ->
            {call.arg.messages[1].content[4][2].by}
      [] call.op = "generateAudio" -> {call.arg.by}
      [] call.op = "uploadAudioFile" -> {call.arg.by}
      [] call.op = "uploadMetadata" ->
            {call.arg.description[2].by, call.arg.external_url[2].by}
      [] call.op = "updateTokenURI" -> {call.arg[2].by}
      [] call.op = "callStoryProtocol" -> {call.arg[1].by, call.arg[2].by}

\* the steps of invocation i that read the result of operation op; the
\* MintResult is read by the notification of line 98
Consumers(i, op) ==
    {calls[i][k].op : k \in {n \in 1..Len(calls[i]) : op \in Sources(calls[i][n])}}
    \cup (IF /\ op = "callStoryProtocol"
             /\ \E k \in 1..Len(notes[i]) :
                   /\ Len(notes[i][k]) = 4
                   /\ notes[i][k][2] = results[i][7].val.v.txHash
                   /\ notes[i][k][4] = results[i][7].val.v.ipId
          THEN {"notify"} ELSE {})

\* the calls of invocation i whose argument is a PodcastMetadata
MetadataConsumers(i) ==
    {k \in 1..Len(calls[i]) : calls[i][k].op = "uploadMetadata"}

Producers(i, op) ==
    {k \in 1..Len(results[i]) : results[i][k].op = op /\ results[i][k].ok}

Producing == {"requestRandomParameters", "messages.create", "generateAudio",
              "uploadAudioFile", "uploadMetadata", "callStoryProtocol"}

(***************************************************************************)
(* C8 as stated: no entity is read by two different steps.                 *)
(***************************************************************************)
C8_Original ==
    \A i \in Invs : \A op \in Producing : Cardinality(Consumers(i, op)) <= 1

(***************************************************************************)
(* C8 amended: every entity is produced by exactly one step.  The          *)
(* GeneratedScript, the AudioReference, the PodcastMetadata and the        *)
(* MintResult are read by exactly one later step; the RandomParameters are *)
(* read by two (the completion and the metadata upload), the audio         *)
(* identifier by two (the metadata upload and the IP registration) and the *)
(* metadata identifier by two (the token-URI update and the IP             *)
(* registration).                                                          *)
(***************************************************************************)
C8_Ownership ==
    \A i \in Invs :
        /\ \A op \in Producing : Cardinality(Producers(i, op)) <= 1
        /\ \A k \in 1..Len(calls[i]) : \A op \in Sources(calls[i][k]) :
               \E n \in Producers(i, op) : n < k
        /\ ret[i] = "true" =>
            /\ \A op \in Producing : Cardinality(Producers(i, op)) = 1
            /\ Consumers(i, "requestRandomParameters")
                   = {"messages.create", "uploadMetadata"}
            /\ Consumers(i, "messages.create") = {"generateAudio"}
            /\ Consumers(i, "generateAudio") = {"uploadAudioFile"}
            /\ Consumers(i, "uploadAudioFile")
                   = {"uploadMetadata", "callStoryProtocol"}
            /\ Consumers(i, "uploadMetadata")
                   = {"updateTokenURI", "callStoryProtocol"}
            /\ Consumers(i, "callStoryProtocol") = {"notify"}
            /\ Cardinality(MetadataConsumers(i)) = 1

C8_Witness ==
    \E i \in Invs :
        /\ ret[i] = "true"
        /\ Cardinality(Consumers(i, "uploadAudioFile")) = 2
        /\ results[i][4].val.v # results[i][5].val.v

(***************************************************************************)
(* C9: whenever the language model is invoked, validate has run            *)
(* successfully for the event and the daily_messages of the prompt are the *)
(* batch it stored in the session state.                                   *)
(***************************************************************************)
C9_PromptFromValidatedBatch ==
    \A i \in Invs :
        Len(calls[i]) >= 2 =>
            /\ validated[i] = "true"
            /\ state.daily_messages
                   = Some(calls[i][2].arg.messages[1].content[3][2])

(***************************************************************************)
(* C10 as stated: the progress notification of an adapter step is emitted  *)
(* after that step has completed.                                          *)
(***************************************************************************)
\* the progress notification of the k-th adapter step (the metadata upload,
\* the fifth, has none)
StepNote(k) ==
    CASE k = 1 -> MsgRandom [] k = 2 -> MsgContent [] k = 3 -> MsgSpeech
      [] k = 4 -> MsgUpload [] k = 6 -> MsgUpdate  [] k = 7 -> MsgMint

NotedSteps == {1, 2, 3, 4, 6, 7}

C10_Original ==
    \A i \in Invs : \A k \in NotedSteps :
        Count(notes[i], StepNote(k)) > 0 =>
            Len(results[i]) >= k /\ results[i][k].ok

(***************************************************************************)
(* C10 amended: the progress notification of an adapter step is emitted    *)
(* when the step is invoked, before it completes, and only then (the       *)
(* metadata upload has no notification of its own); a run with all         *)
(* configuration present ends only when a step has raised or all seven     *)
(* have returned, whether the callback's own promise resolves or rejects.  *)
(***************************************************************************)
C10_NotifyBeforeStep ==
    \A i \in Invs :
        /\ \A k \in NotedSteps :
               Count(notes[i], StepNote(k)) = (IF Len(calls[i]) >= k THEN 1 ELSE 0)
        /\ (Started(i) /\ AllConfigured) =>
               /\ Len(calls[i]) >= 1
               /\ Len(calls[i]) = Len(results[i])
                      + (IF pending[i].st = "inflight" THEN 1 ELSE 0)
               /\ pc[i] = "done" => (Raised(i) \/ AllReturned(i))
               /\ pc[i] # "done" => pending[i].st # "none"

\* the upload of the audio is in flight, announced, in a run whose callback
\* rejects
C10_Witness ==
    \E i \in Invs :
        /\ callback[i] = "rejects"
        /\ Len(calls[i]) = 4 /\ pending[i].st = "inflight"
        /\ notes[i][Len(notes[i])] = MsgUpload

(***************************************************************************)
(* C11: the failure notification does not depend on the failure.  Of two   *)
(* runs with all configuration present that have failed, at whatever steps *)
(* and with whatever errors, the failure notifications are the same text,  *)
(* and no notification of a failed run contains the error detail, which    *)
(* goes to the log only.                                                   *)
(***************************************************************************)
Failed(i) == AllConfigured /\ Raised(i) /\ pc[i] = "done"

ErrorOf(i) == results[i][Len(results[i])].err

C11_GenericFailure ==
    \A i \in Invs : \A j \in Invs :
        (Failed(i) /\ Failed(j)) =>
            /\ Count(notes[i], MsgError) = 1
            /\ notes[i][Len(notes[i])] = notes[j][Len(notes[j])]
            /\ \A k \in 1..Len(notes[i]) : \A m \in 1..Len(notes[i][k]) :
                   notes[i][k][m] \notin Errs
            /\ logged[i] = << <<"Podcast Generation Error:", ErrorOf(i)>> >>

\* two runs have failed at different steps with different errors
C11_Witness ==
    /\ Cardinality(Invs) = 2
    /\ Failed(1) /\ Failed(2)
    /\ Len(results[1]) # Len(results[2])
    /\ ErrorOf(1) # ErrorOf(2)

(***************************************************************************)
(* C12: no step is retried and nothing is rolled back.  In every           *)
(* invocation each adapter operation is invoked at most once, and only the *)
(* seven operations of the pipeline are ever invoked; after a step has     *)
(* failed no further adapter call (retry or compensation) is made, so the  *)
(* steps completed before it stay completed while the run returns false.   *)
(***************************************************************************)
PipelineOps == {OpOrder[k] : k \in 1..Len(OpOrder)}

C12_NoRetryNoRollback ==
    \A i \in Invs :
        /\ \A k \in 1..Len(calls[i]) : \A m \in 1..Len(calls[i]) :
               calls[i][k].op = calls[i][m].op => k = m
        /\ \A k \in 1..Len(calls[i]) : calls[i][k].op \in PipelineOps
        /\ Raised(i) =>
               /\ Len(calls[i]) = Len(results[i])
               /\ pending[i].st # "inflight"
               /\ \A k \in 1..(Len(results[i]) - 1) :
                      results[i][k].ok /\ results[i][k].op = calls[i][k].op
               /\ pc[i] = "done" => ret[i] = "false"

\* the IP registration failed after both uploads and the token-URI update
\* had completed, and the run has returned false
C12_Witness ==
    \E i \in Invs :
        /\ Raised(i) /\ pc[i] = "done" /\ ret[i] = "false"
        /\ Len(results[i]) = 7
        /\ results[i][4].ok /\ results[i][5].ok /\ results[i][6].ok
        /\ Len(calls[i]) = 7

(***************************************************************************)
(* C13: identifiers flow between the steps of one run without              *)
(* substitution.  The metadata uploaded has an external_url built from the *)
(* identifier this run's audio upload returned and a description built     *)
(* from this run's RandomParameters; updateTokenURI gets the URI built     *)
(* from the identifier this run's metadata upload returned; the IP         *)
(* registration gets (audio identifier, metadata identifier), in that      *)
(* order.                                                                  *)
(***************************************************************************)
IpfsUrl(cid) == <<"https://ipfs.io/ipfs/", cid>>

C13_IdentifierFlow ==
    \A i \in Invs :
        /\ Len(calls[i]) >= 5 =>
               /\ calls[i][5].op = "uploadMetadata"
               /\ results[i][4].op = "uploadAudioFile"
               /\ results[i][1].op = "requestRandomParameters"
               /\ calls[i][5].arg.external_url = IpfsUrl(results[i][4].val)
               /\ calls[i][5].arg.description =
                      <<"Podcast generated by BuffiCast with parameters: ",
                        results[i][1].val>>
        /\ Len(calls[i]) >= 6 =>
               /\ calls[i][6].op = "updateTokenURI"
               /\ results[i][5].op = "uploadMetadata"
               /\ calls[i][6].arg = IpfsUrl(results[i][5].val)
        /\ Len(calls[i]) >= 7 =>
               /\ calls[i][7].op = "callStoryProtocol"
               /\ calls[i][7].arg = <<results[i][4].val, results[i][5].val>>

\* two runs, whose adapters answered differently, have both reached the IP
\* registration
C13_Witness ==
    /\ Cardinality(Invs) = 2
    /\ \A i \in Invs : Len(calls[i]) = 7
    /\ results[1][4].val # results[2][4].val
    /\ results[1][5].val # results[2][5].val
    /\ calls[1][7].arg # calls[2][7].arg

(***************************************************************************)
(* C14: if every adapter call eventually returns or raises, a handler      *)
(* invocation with a callback eventually terminates: it has returned true  *)
(* with all seven steps completed, or false after missing configuration or *)
(* the first error; it does not stay in an intermediate step.              *)
(***************************************************************************)
Terminated(i) ==
    /\ pc[i] = "done"
    /\ pending[i].st = "none"
    /\ \/ ret[i] = "true" /\ AllReturned(i)
       \/ ret[i] = "false" /\ (~AllConfigured \/ Raised(i))

C14_Terminates == Started(1) ~> Terminated(1)

\* a run that went through all seven steps has terminated
C14_Witness ==
    /\ Started(1) /\ Terminated(1)
    /\ ret[1] = "true"
    /\ Len(calls[1]) = 7

(***************************************************************************)
(* C15: in a terminated invocation with a callback the return value agrees *)
(* with the last notification: true exactly when the IP registration has   *)
(* completed and the last notification is a success notification, false    *)
(* exactly when the last notification is the missing-config warning or the *)
(* generic failure notice.  Nothing is emitted after a warning or failure  *)
(* notice, and the two never occur in the same run.                        *)
(***************************************************************************)
LastNote(i) == notes[i][Len(notes[i])]

IsEndNote(n) == n = MsgMissingEnv \/ n = MsgError

C15_ReturnMatchesLastNote ==
    \A i \in Invs :
        /\ \A k \in 1..(Len(notes[i]) - 1) : ~IsEndNote(notes[i][k])
        /\ Count(notes[i], MsgMissingEnv) + Count(notes[i], MsgError) <= 1
        /\ (Started(i) /\ pc[i] = "done") =>
               /\ notes[i] # <<>>
               /\ ret[i] \in {"true", "false"}
               /\ ret[i] = "true" <=>
                      (AllReturned(i) /\ IsSuccessNote(LastNote(i)))
               /\ ret[i] = "false" <=> IsEndNote(LastNote(i))
        /\ (Started(i) /\ pc[i] # "done") =>
               ret[i] = "none" /\ \A k \in 1..Len(notes[i]) : ~IsEndNote(notes[i][k])

\* a run that failed after some progress has returned false, the failure
\* notice being its last notification
C15_Witness ==
    \E i \in Invs :
        /\ Started(i) /\ pc[i] = "done"
        /\ ret[i] = "false"
        /\ Len(notes[i]) >= 3
        /\ LastNote(i) = MsgError

(***************************************************************************)
(* C16: called without a callback, the handler raises before it reads the  *)
(* configuration and before it invokes any adapter; the error is not       *)
(* caught by the catch-all, so it leaves the handler instead of becoming a *)
(* false return, nothing is logged and no notification is emitted.         *)
(***************************************************************************)
C16_NoCallbackThrows ==
    \A i \in Invs :
        callback[i] = "absent" =>
            /\ pc[i] = "done"
            /\ ret[i] = "threw"
            /\ notes[i] = <<>>
            /\ calls[i] = <<>>
            /\ results[i] = <<>>
            /\ logged[i] = <<>>
            /\ locals[i].messages = Null

\* the handler was called without a callback while a configuration value
\* was absent and a fragment was there to extract
C16_Witness ==
    \E i \in Invs :
        /\ callback[i] = "absent"
        /\ ~AllConfigured
        /\ NumFragments(text[i]) >= 1
        /\ ret[i] = "threw"

====
